---- MODULE Spec2Model ----
(***************************************************************************)
(* masterchat: the StreamPool registry (src/pool.ts) and the Masterchat    *)
(* session it manages (listen / stop / fetch / iterate).                   *)
(*                                                                         *)
(* Granularity.  JavaScript runs one synchronous segment at a time.  A     *)
(* session is suspended either on a macrotask (the network request, the    *)
(* retry back-off timer, the drift-compensated wait) or inside emit(),     *)
(* while the registered handlers run.  Every action below is one such      *)
(* segment: it starts where the session was suspended and runs, through    *)
(* the promise continuations that follow without user code in between,     *)
(* up to the next suspension or the next emit().  The state between two    *)
(* actions of one session is therefore exactly a state in which other      *)
(* code (an API call made by a handler or by the application, a step of    *)
(* another session) can run.                                               *)
(***************************************************************************)
EXTENDS Integers, FiniteSets, Sequences, TLC

\* ------------------------------------------------------------------ bounds
PoolSessions == 2       \* Masterchat objects the pool constructs (Spec)
MaxSessions == 3        \* Masterchat objects the pool constructs (SpecStale)
PoolPolls == 2          \* fetch() calls of all sessions together (Spec)
StalePolls == 3         \* fetch() calls of all sessions together (SpecStale)
MaxPolls == 2           \* fetch() calls of the session (SpecSession)
MaxEnds == 2            \* stop() is not called once this many 'end' events were emitted
MaxTime == 7200         \* the clock stops advancing here (ms)
MaxReads == 3           \* operations made on one ProtoBufReader (SpecReader)

\* ------------------------------------------------------ program constants
RetryBudget == 3        \* let retryRemaining = 3
RetryInterval == 3000   \* const retryInterval = 3000

\* ------------------------------------------------------------------ inputs
Videos == {"v1", "v2"}
Channels == {"c1", "c2"}
Modes == {"live", "replay", "unknown"}
Timeouts == {0, 5000}           \* continuation.timeoutMs of a response
Durations == {1200, 6000}       \* how far the clock moves in one Tick

Sessions == 1..MaxSessions
NoSession == 0

FatalStatuses == {"PermissionDenied", "NotFound", "Invalid"}
TransientStatuses == {"Unavailable", "Internal", "Unrecognized"}
Failures == {"transport"} \cup FatalStatuses \cup TransientStatuses
Transient == {"transport"} \cup TransientStatuses
Replies == {"disabled", "membersOnly", "ended", "content"}
Responses == Failures \cup Replies

EventTypes == {"data", "actions", "chats", "end", "error"}
Terminal == {"end", "error"}

NoCont == -1                    \* res.continuation === undefined
InitialToken == 0               \* iterate(): continuation ? continuation : { top: topChat }

VARIABLES
  \* StreamPool
  options,          \* this.options.mode, fixed at construction
  pool,             \* this.pool: videoId -> session (NoSession: no entry)
  created,          \* number of Masterchat objects constructed so far
  \* Masterchat, one entry per object
  videoId, channelId,
  isLive,           \* "live" (true) / "replay" (false) / "unknown" (undefined)
  listener,         \* this.listener !== null
  aborted,          \* this.listenerAbortion.signal.aborted
  pc,               \* where the polling loop is suspended
  retryRemaining,   \* fetch(): let retryRemaining
  requestUrl,       \* fetch(): let requestUrl
  continuation,     \* iterate(): res.continuation (its timeoutMs, or NoCont)
  skipFirst,        \* iterate(): ignoreFirstResponse && !treatedFirstResponse
  startMs,          \* iterate(): const startMs
  token,            \* iterate(): let token (InitialToken: { top: topChat })
  resToken,         \* iterate(): res.continuation.token of the last response
  now,              \* Date.now()
  \* observation (history) variables
  polls,            \* fetch() calls made by the session
  call,             \* the current fetch() call: requests, failures, outcome
  pollStart,        \* the clock when the current fetch() call was made
  waitMs,           \* the delay the loop asked for after the last batch
  sessEv,           \* events emitted by each session, by type
  poolEv,           \* events re-emitted by the pool, by session and type
  poolTags,         \* the (videoId, channelId) metadata of those events
  hasAtTerm,        \* has(videoId) as seen by the pool's 'end'/'error' listeners
  ret,              \* the handle returned by the last subscribe()
  given,            \* the (videoId, channelId) of the subscribe() that made the session
  stoppedAt,        \* where the polling loop was suspended when stop() last took effect
  dataOf,           \* the polls whose batch was emitted as 'data', in order
  \* ProtoBufReader
  rd                \* the reader: buf, c, s, and the outcome of its last read

poolVars == <<options, pool, created>>
sessVars == <<videoId, channelId, isLive, listener, aborted, pc, retryRemaining,
              requestUrl, continuation, skipFirst, startMs, token, resToken>>
obsVars == <<polls, call, pollStart, waitMs, sessEv, poolEv, poolTags, hasAtTerm,
            ret, given, stoppedAt, dataOf>>
vars == <<poolVars, sessVars, now, obsVars, rd>>

\* ------------------------------------------------------------ pure helpers

has_never(p, v) == FALSE

\* StreamPool.has
has(p, v) == p[v] # NoSession

PoolDelete_clear(p, v) == [x \in Videos |-> NoSession]

PoolDelete_keep(p, v) == p

\* this.pool.delete(mc.videoId) in _handleEnd / _handleError
PoolDelete(p, v) == [p EXCEPT ![v] = NoSession]

\* Masterchat.metadata, as far as the identity goes
Metadata(s) == <<videoId[s], channelId[s]>>

\* constructor: mode === "live" ? true : mode === "replay" ? false : undefined
InitialLive(mode) == mode

\* applyNewLiveStatus: requestUrl = isLive ? EP_GLC : EP_GLCR, called with
\* this.isLive ?? true
Endpoint(live) == IF live \in {"live", "unknown"} THEN "EP_GLC" ELSE "EP_GLCR"

BudgetAfter_kept(r, rr) == rr

\* the status switch of fetch(): the fatal statuses force the budget to zero
BudgetAfter(r, rr) == IF r \in FatalStatuses THEN 0 ELSE rr

CanRetry_orZero(rr) == rr >= 0

CanRetry_always(rr) == TRUE

\* if (retryRemaining > 0)
CanRetry(rr) == rr > 0

ShouldFallback_notLive(live) == live # "live"

ShouldFallback_always(live) == TRUE

\* if (this.isLive === undefined): retry with the replay endpoint
ShouldFallback(live) == live = "unknown"

\* the error object each response makes fetch() throw
ErrorOf(r) ==
  CASE r = "PermissionDenied" -> "NoPermissionError"
    [] r = "NotFound" -> "UnavailableError"
    [] r = "Invalid" -> "InvalidArgumentError"
    [] r \in TransientStatuses -> "Error"
    [] r = "transport" -> "FetchError"
    [] r = "disabled" -> "DisabledChatError"
    [] r = "membersOnly" -> "MembersOnlyError"
    [] OTHER -> "none"

IsAborted_never(type) == FALSE

\* fetch(), catch: if ((err as any).type === "aborted") throw new AbortError()
IsAborted(type) == type = "aborted"

NextToken_stale(tok, res) == tok

\* iterate(): token = continuation.token
NextToken(tok, res) == res

Yields_never(skip) == FALSE

\* iterate(): if (!(ignoreFirstResponse && !treatedFirstResponse)) yield res
Yields(skip) == ~skip

Suppressed_all(err) == TRUE

Suppressed_nothing(err) == FALSE

\* listen(): .catch((err) => { if (err instanceof AbortError) return; ... })
Suppressed(err) == err = "AbortError"

\* iterate(): if (this.isLive ?? true)
Paced(live) == live \in {"live", "unknown"}

\* iterate(): driftMs = Date.now() - startMs; timeoutMs = continuation.timeoutMs - driftMs
DriftWait(timeoutMs, t, start) == timeoutMs - (t - start)

NoCall == [requests |-> 0, transient |-> 0, fallbacks |-> 0, last |-> "none",
           out |-> "none", token |-> InitialToken]
NoEvents == [e \in EventTypes |-> 0]

\* ---------------------------------------------------------- ProtoBufReader
\* A bigint is the set of the positions of its 1 bits, so that |, &, << and
\* >> are computed on all 64 bits and more; a byte is a number in 0..255.

Bytes == 0..255

\* the bits of a number below 2^31
BitsOf(n) == {i \in 0..30 : (n \div 2^i) % 2 = 1}

RECURSIVE NumberFrom(_, _)
NumberFrom(bits, i) ==
  IF i > 30 THEN 0
  ELSE (IF i \in bits THEN 2^i ELSE 0) + NumberFrom(bits, i + 1)

\* Number(n) of a bigint below 2^31
Number(bits) == NumberFrom(bits, 0)

\* n << k and n >> k
ShiftLeft(bits, k) == {i + k : i \in bits}
ShiftRight(bits, k) == {i - k : i \in {j \in bits : j >= k}}

splitHeader_shift4(n) ==
  [field |-> ShiftRight(n, 4), wire |-> Number(n \cap BitsOf(7)), of |-> n]

\* static splitHeader(n): [n >> 3n, Number(n & 0x7n)]
splitHeader(n) ==
  [field |-> ShiftRight(n, 3), wire |-> Number(n \cap BitsOf(7)), of |-> n]

parseVariant_shift8(buf) ==
  UNION {ShiftLeft(BitsOf(buf[i]) \cap BitsOf(127), (i - 1) * 8) : i \in 1..Len(buf)}

\* static parseVariant(buf):
\* buf.reduce((r, b, i) => r | ((BigInt(b) & 0x7fn) << (BigInt(i) * 7n)), 0n)
parseVariant(buf) ==
  UNION {ShiftLeft(BitsOf(buf[i]) \cap BitsOf(127), (i - 1) * 7) : i \in 1..Len(buf)}

\* buf[i] & 0x80 (undefined & 0x80 is 0 outside the buffer)
HasMore(buf, i) == i >= 0 /\ i < Len(buf) /\ 7 \in BitsOf(buf[i + 1])

\* eatVariant(): while (this.buf[this.c] & 0x80) this.c += 1
RECURSIVE ScanVariant(_, _)
ScanVariant(buf, c) == IF HasMore(buf, c) THEN ScanVariant(buf, c + 1) ELSE c

\* buf.slice(a, b) for 0 <= a <= b: both ends are clamped to the length
Slice(buf, a, b) ==
  LET lo == IF a < Len(buf) THEN a ELSE Len(buf)
      hi == IF b < Len(buf) THEN b ELSE Len(buf)
  IN SubSeq(buf, lo + 1, hi)

\* buf.readUInt32LE / readBigUInt64LE: the bytes of the number, lowest first
LittleEndian(bytes) ==
  UNION {ShiftLeft(BitsOf(bytes[i]), (i - 1) * 8) : i \in 1..Len(bytes)}

\* what a read returned: null, a bigint or number (val), a Buffer (bytes),
\* or a RangeError thrown by the Buffer
NoOut == [kind |-> "none", val |-> {}, bytes |-> <<>>]
Null == [NoOut EXCEPT !.kind = "null"]
NoHeader == [field |-> {}, wire |-> 0, of |-> {}]

\* the base-128 encoding of a number below 2^31, lowest group first
RECURSIVE EncodeNat(_)
EncodeNat(n) ==
  IF n < 128 THEN <<n>> ELSE <<(n % 128) + 128>> \o EncodeNat(n \div 128)

\* the same for a bigint
Groups(bits) ==
  IF bits = {} THEN 1
  ELSE (CHOOSE m \in bits : \A i \in bits : i <= m) \div 7 + 1
EncodeBits(bits) ==
  [i \in 1..Groups(bits) |->
     Number(ShiftRight(bits \cap (7 * (i - 1) .. 7 * (i - 1) + 6), 7 * (i - 1)))
       + (IF i < Groups(bits) THEN 128 ELSE 0)]

\* the buffers handed to a reader: one varint; a header varint followed by
\* a payload varint; fixed-width integers; truncated and empty input
SmallValues == {0, 1, 127, 128, 300, 16383, 16384, 2097151, 2097152}
WideValues == {{31}, {32}, {0, 35}, {63}, 56..63, 0..63}
Headers == {0, 8, 10, 128, 16383}
ValueBuffers ==
  {EncodeNat(n) : n \in SmallValues} \cup {EncodeBits(v) : v \in WideValues}
RawBuffers ==
  {<<>>, <<128>>, <<255, 255>>, <<1, 2, 3>>, <<1, 2, 3, 4>>, <<255, 255, 255, 255>>,
   <<1, 2, 3, 4, 5>>, <<1, 0, 0, 0, 0, 0, 0, 128>>}
Buffers ==
  ValueBuffers \cup RawBuffers
    \cup {EncodeNat(h) \o b : h \in Headers, b \in ValueBuffers}
EatSizes == {0, 1, 2, 9}
RewindSizes == {1, 2}

\* no ProtoBufReader was constructed
NoReader == [buf |-> <<>>, c |-> 0, s |-> 0, op |-> "none", from |-> 0,
             reads |-> 0, out |-> NoOut, hdr |-> NoHeader]

\* ------------------------------------------------------------------- Init
InitWith(modes) ==
  /\ options \in modes
  /\ pool = [v \in Videos |-> NoSession]
  /\ created = 0
  /\ videoId = [s \in Sessions |-> "none"]
  /\ channelId = [s \in Sessions |-> "none"]
  /\ isLive = [s \in Sessions |-> "unknown"]
  /\ listener = [s \in Sessions |-> FALSE]
  /\ aborted = [s \in Sessions |-> FALSE]
  /\ pc = [s \in Sessions |-> "none"]
  /\ retryRemaining = [s \in Sessions |-> 0]
  /\ requestUrl = [s \in Sessions |-> "none"]
  /\ continuation = [s \in Sessions |-> NoCont]
  /\ skipFirst = [s \in Sessions |-> FALSE]
  /\ startMs = [s \in Sessions |-> 0]
  /\ token = [s \in Sessions |-> InitialToken]
  /\ resToken = [s \in Sessions |-> NoCont]
  /\ now = 0
  /\ polls = [s \in Sessions |-> 0]
  /\ call = [s \in Sessions |-> NoCall]
  /\ pollStart = [s \in Sessions |-> 0]
  /\ waitMs = [s \in Sessions |-> 0]
  /\ sessEv = [s \in Sessions |-> NoEvents]
  /\ poolEv = [s \in Sessions |-> NoEvents]
  /\ poolTags = [s \in Sessions |-> {}]
  /\ hasAtTerm = {}
  /\ ret = NoSession
  /\ given = [s \in Sessions |-> <<"none", "none">>]
  /\ stoppedAt = [s \in Sessions |-> "none"]
  /\ dataOf = [s \in Sessions |-> <<>>]
  /\ rd = NoReader


\* ------------------------------------------------------------ bookkeeping
RECURSIVE SumTo(_, _)
SumTo(f, n) == IF n = 0 THEN 0 ELSE f[n] + SumTo(f, n - 1)

TotalPolls == SumTo(polls, MaxSessions)
TotalEnds == SumTo([s \in Sessions |-> sessEv[s]["end"]], MaxSessions)

\* ---------------------------------------------------------------- events

Wired_noError(ev) == ev \in EventTypes \ {"error"}

\* subscribe(): the session events the pool registers a handler for
Wired(ev) == ev \in EventTypes

HandleTerminal_emitFirst(p, v) ==
  [registry |-> PoolDelete(p, v), seen |-> has(p, v)]

\* _handleEnd / _handleError: this.pool.delete(mc.videoId), then this.emit(...).
\* registry: the map after the handler; seen: has(videoId) as the pool's own
\* listeners find it while the terminal event is being emitted.
HandleTerminal(p, v) ==
  [registry |-> PoolDelete(p, v), seen |-> has(PoolDelete(p, v), v)]

\* the handlers subscribe() wires to a session: _handleData, _handleActions,
\* _handleChats, _handleEnd, _handleError
PoolRelay(s, ev) ==
  IF Wired(ev)
  THEN /\ pool' = IF ev \in Terminal
                  THEN HandleTerminal(pool, videoId[s]).registry
                  ELSE pool
       /\ poolEv' = [poolEv EXCEPT ![s][ev] = @ + 1]
       /\ poolTags' = [poolTags EXCEPT ![s] = @ \cup {Metadata(s)}]
       /\ hasAtTerm' = IF ev \in Terminal
                       THEN hasAtTerm \cup {HandleTerminal(pool, videoId[s]).seen}
                       ELSE hasAtTerm
  ELSE UNCHANGED <<pool, poolEv, poolTags, hasAtTerm>>

\* this.emit(ev, ...) on a session: its handlers run synchronously
Emit(s, ev) ==
  /\ sessEv' = [sessEv EXCEPT ![s][ev] = @ + 1]
  /\ PoolRelay(s, ev)

NoEmit == UNCHANGED <<sessEv, pool, poolEv, poolTags, hasAtTerm>>

\* ------------------------------------------------------------- Masterchat

\* fetch(), up to the first `await this.post(requestUrl, requestBody)`
StartFetch(s, live, tok, limit) ==
  /\ TotalPolls < limit
  /\ polls' = [polls EXCEPT ![s] = @ + 1]
  /\ retryRemaining' = [retryRemaining EXCEPT ![s] = RetryBudget]
  /\ requestUrl' = [requestUrl EXCEPT ![s] = Endpoint(live)]
  /\ call' = [call EXCEPT ![s] = [NoCall EXCEPT !.requests = 1, !.token = tok]]
  /\ pollStart' = [pollStart EXCEPT ![s] = now]
  /\ pc' = [pc EXCEPT ![s] = "post"]

\* listen(): the promise of makePromise rejected with err:
\* .catch(err => { if (err instanceof AbortError) return; this.emit("error", err) })
\* .finally(() => { this.listener = null })
\* Nothing runs between a suppressed rejection and the finally; after an
\* emitted 'error' its handlers run before the finally does.
Reject(s, err) ==
  IF Suppressed(err)
  THEN /\ NoEmit
       /\ listener' = [listener EXCEPT ![s] = FALSE]
       /\ pc' = [pc EXCEPT ![s] = "done"]
  ELSE /\ Emit(s, "error")
       /\ pc' = [pc EXCEPT ![s] = "finally"]
       /\ UNCHANGED listener

\* fetch(): the request settles with response r (t: its continuation's
\* timeoutMs; its continuation's token is named after the poll it answers).  Covers the status switch, the catch/retry block, the missing
\* continuationContents block and the two returns, then iterate() up to the
\* yield and listen() up to emit("data").
PostSettle(s, r, t) ==
  /\ s <= created
  /\ pc[s] = "post"
  /\ ~aborted[s]
  /\ r # "content" => t = 0
  /\ LET c0 == [call[s] EXCEPT !.last = r,
                               !.transient = IF r \in Transient THEN @ + 1 ELSE @]
         rr == BudgetAfter(r, retryRemaining[s])
         thrown == \/ r \in Failures /\ ~CanRetry(rr)
                   \/ r = "disabled" /\ ~ShouldFallback(isLive[s])
                   \/ r = "membersOnly"
     IN
     \/ \* catch: retryRemaining -= 1; await delay(retryInterval); continue loop
        /\ r \in Failures /\ CanRetry(rr)
        /\ retryRemaining' = [retryRemaining EXCEPT ![s] = rr - 1]
        /\ pc' = [pc EXCEPT ![s] = "backoff"]
        /\ call' = [call EXCEPT ![s] = c0]
        /\ NoEmit
        /\ UNCHANGED <<isLive, requestUrl, continuation, startMs, listener,
                       resToken, dataOf>>
     \/ \* the error leaves fetch(), iterate() and makePromise
        /\ thrown
        /\ retryRemaining' = [retryRemaining EXCEPT ![s] = rr]
        /\ call' = [call EXCEPT ![s] = [c0 EXCEPT !.out = ErrorOf(r)]]
        /\ Reject(s, ErrorOf(r))
        /\ UNCHANGED <<isLive, requestUrl, continuation, startMs, resToken, dataOf>>
     \/ \* this.isLive = false; applyNewLiveStatus(false); continue loop
        /\ r = "disabled" /\ ShouldFallback(isLive[s])
        /\ isLive' = [isLive EXCEPT ![s] = "replay"]
        /\ requestUrl' = [requestUrl EXCEPT ![s] = Endpoint("replay")]
        /\ call' = [call EXCEPT ![s] = [c0 EXCEPT !.requests = @ + 1,
                                                  !.fallbacks = @ + 1]]
        /\ NoEmit
        /\ UNCHANGED <<retryRemaining, pc, continuation, startMs, listener,
                       resToken, dataOf>>
     \/ \* return { actions, continuation, error: null }
        /\ r \in {"ended", "content"}
        /\ call' = [call EXCEPT ![s] = [c0 EXCEPT !.out = "batch"]]
        /\ continuation' = [continuation EXCEPT ![s] = IF r = "ended" THEN NoCont ELSE t]
        /\ resToken' = [resToken EXCEPT ![s] = IF r = "ended" THEN NoCont ELSE polls[s]]
        /\ startMs' = [startMs EXCEPT ![s] = now]
        /\ IF Yields(skipFirst[s])
           THEN /\ Emit(s, "data")
                /\ dataOf' = [dataOf EXCEPT ![s] = Append(@, polls[s])]
                /\ pc' = [pc EXCEPT ![s] = "emitActions"]
           ELSE /\ NoEmit
                /\ pc' = [pc EXCEPT ![s] = "resume"]
                /\ UNCHANGED dataOf
        /\ UNCHANGED <<isLive, requestUrl, retryRemaining, listener>>
  /\ UNCHANGED <<rd, token, options, created, videoId, channelId, aborted, skipFirst, now,
                 polls, pollStart, waitMs, ret, given, stoppedAt>>

\* the request was issued with, or is in flight under, an aborted signal
\* (post() passes this.listenerAbortion.signal): it rejects with type
\* "aborted", and the catch block of fetch() handles the rejection
PostAbort(s) ==
  /\ s <= created
  /\ pc[s] = "post"
  /\ aborted[s]
  /\ IF IsAborted("aborted")
     THEN \* throw new AbortError()
          /\ call' = [call EXCEPT ![s].out = "AbortError"]
          /\ Reject(s, "AbortError")
          /\ UNCHANGED retryRemaining
     ELSE IF CanRetry(retryRemaining[s])
     THEN \* retryRemaining -= 1; await delay(retryInterval); continue loop
          /\ retryRemaining' = [retryRemaining EXCEPT ![s] = @ - 1]
          /\ pc' = [pc EXCEPT ![s] = "backoff"]
          /\ NoEmit
          /\ UNCHANGED <<call, listener>>
     ELSE \* throw err
          /\ call' = [call EXCEPT ![s].out = ErrorOf("transport")]
          /\ Reject(s, ErrorOf("transport"))
          /\ UNCHANGED retryRemaining
  /\ UNCHANGED <<rd, token, resToken, dataOf,
                 options, created, videoId, channelId, isLive, aborted,
                 requestUrl, continuation, skipFirst, startMs,
                 now, polls, pollStart, waitMs, ret, given, stoppedAt>>

\* await delay(retryInterval) is over (it takes no signal); continue loop
Backoff(s) ==
  /\ s <= created
  /\ pc[s] = "backoff"
  /\ pc' = [pc EXCEPT ![s] = "post"]
  /\ call' = [call EXCEPT ![s].requests = @ + 1]
  /\ NoEmit
  /\ UNCHANGED <<rd, token, resToken, dataOf,
                 options, created, videoId, channelId, isLive, listener, aborted,
                 retryRemaining, requestUrl, continuation, skipFirst, startMs,
                 now, polls, pollStart, waitMs, ret, given, stoppedAt>>

\* listen(): this.emit("actions", actions, this)
EmitActions(s) ==
  /\ s <= created
  /\ pc[s] = "emitActions"
  /\ Emit(s, "actions")
  /\ pc' = [pc EXCEPT ![s] = "emitChats"]
  /\ UNCHANGED <<rd, token, resToken, dataOf,
                 options, created, videoId, channelId, isLive, listener, aborted,
                 retryRemaining, requestUrl, continuation, skipFirst, startMs,
                 now, polls, call, pollStart, waitMs, ret, given, stoppedAt>>

\* listen(): if (this.listenerCount("chats") > 0) this.emit("chats", chats, this)
\* (the pool always registers a 'chats' handler)
EmitChats(s) ==
  /\ s <= created
  /\ pc[s] = "emitChats"
  /\ Emit(s, "chats")
  /\ pc' = [pc EXCEPT ![s] = "resume"]
  /\ UNCHANGED <<rd, token, resToken, dataOf,
                 options, created, videoId, channelId, isLive, listener, aborted,
                 retryRemaining, requestUrl, continuation, skipFirst, startMs,
                 now, polls, call, pollStart, waitMs, ret, given, stoppedAt>>

\* iterate() after the yield: the continuation test, the drift-compensated
\* wait, or the next fetch(); and listen()'s .then when the loop breaks
Resume(s, limit) ==
  /\ s <= created
  /\ pc[s] = "resume"
  /\ skipFirst' = [skipFirst EXCEPT ![s] = FALSE]
  /\ IF continuation[s] = NoCont
     THEN \* break; makePromise resolves; .then(() => this.emit("end"))
          /\ Emit(s, "end")
          /\ pc' = [pc EXCEPT ![s] = "finally"]
          /\ UNCHANGED <<polls, retryRemaining, requestUrl, call, pollStart, waitMs,
                         token>>
     ELSE IF Paced(isLive[s]) /\ DriftWait(continuation[s], now, startMs[s]) > 0
     THEN \* token = continuation.token; await delay(timeoutMs, signal)
          /\ token' = [token EXCEPT ![s] = NextToken(@, resToken[s])]
          /\ waitMs' = [waitMs EXCEPT ![s] = DriftWait(continuation[s], now, startMs[s])]
          /\ pc' = [pc EXCEPT ![s] = "wait"]
          /\ NoEmit
          /\ UNCHANGED <<polls, retryRemaining, requestUrl, call, pollStart>>
     ELSE \* token = continuation.token; the loop goes round: fetch(token)
          /\ token' = [token EXCEPT ![s] = NextToken(@, resToken[s])]
          /\ waitMs' = [waitMs EXCEPT ![s] = 0]
          /\ StartFetch(s, isLive[s], NextToken(token[s], resToken[s]), limit)
          /\ NoEmit
  /\ UNCHANGED <<rd, resToken, dataOf,
                 options, created, videoId, channelId, isLive, listener, aborted,
                 continuation, startMs, now, ret, given, stoppedAt>>

\* the timer of delay(timeoutMs, signal) fired
WaitDone(s, limit) ==
  /\ s <= created
  /\ pc[s] = "wait"
  /\ ~aborted[s]
  /\ StartFetch(s, isLive[s], token[s], limit)
  /\ NoEmit
  /\ UNCHANGED <<rd, token, resToken, dataOf,
                 options, created, videoId, channelId, isLive, listener, aborted,
                 continuation, skipFirst, startMs, now, waitMs, ret, given, stoppedAt>>

\* delay(timeoutMs, signal) under an aborted signal rejects with AbortError
WaitAbort(s) ==
  /\ s <= created
  /\ pc[s] = "wait"
  /\ aborted[s]
  /\ Reject(s, "AbortError")
  /\ UNCHANGED <<rd, token, resToken, dataOf,
                 options, created, videoId, channelId, isLive, aborted,
                 retryRemaining, requestUrl, continuation, skipFirst, startMs,
                 now, polls, call, pollStart, waitMs, ret, given, stoppedAt>>

\* listen(): .finally(() => { this.listener = null })
Finally(s) ==
  /\ s <= created
  /\ pc[s] = "finally"
  /\ listener' = [listener EXCEPT ![s] = FALSE]
  /\ pc' = [pc EXCEPT ![s] = "done"]
  /\ NoEmit
  /\ UNCHANGED <<rd, token, resToken, dataOf,
                 options, created, videoId, channelId, isLive, aborted,
                 retryRemaining, requestUrl, continuation, skipFirst, startMs,
                 now, polls, call, pollStart, waitMs, ret, given, stoppedAt>>

\* stop(): if (!this.listener) return; this.listenerAbortion.abort(); this.emit("end")
StopBody(s) ==
  IF listener[s]
  THEN /\ aborted' = [aborted EXCEPT ![s] = TRUE]
       /\ stoppedAt' = [stoppedAt EXCEPT ![s] = pc[s]]
       /\ Emit(s, "end")
  ELSE /\ NoEmit
       /\ UNCHANGED <<aborted, stoppedAt>>

\* stop() called on a handle that subscribe() returned
Stop(s) ==
  /\ s <= created
  /\ TotalEnds < MaxEnds
  /\ StopBody(s)
  /\ UNCHANGED <<rd, token, resToken, dataOf,
                 options, created, videoId, channelId, isLive, listener, pc,
                 retryRemaining, requestUrl, continuation, skipFirst, startMs,
                 now, polls, call, pollStart, waitMs, ret, given>>

\* listen(iterateOptions) called on a handle: if (this.listener) return
\* this.listener; otherwise a new AbortController is made and makePromise
\* runs iterate() and fetch() up to the first request.  The listener is
\* null only when the previous loop has unwound.
Listen(s, ign, limit) ==
  /\ s <= created
  /\ IF listener[s]
     THEN UNCHANGED <<listener, aborted, skipFirst, token, pc, polls,
                      retryRemaining, requestUrl, call, pollStart>>
     ELSE /\ listener' = [listener EXCEPT ![s] = TRUE]
          /\ aborted' = [aborted EXCEPT ![s] = FALSE]
          /\ skipFirst' = [skipFirst EXCEPT ![s] = ign]
          /\ token' = [token EXCEPT ![s] = InitialToken]
          /\ StartFetch(s, isLive[s], InitialToken, limit)
  /\ NoEmit
  /\ UNCHANGED <<rd, resToken, dataOf, options, created, videoId, channelId,
                 isLive, continuation, startMs, now, waitMs, ret, given,
                 stoppedAt>>

\* ------------------------------------------------------------- StreamPool

\* subscribe(videoId, channelId, iterateOptions); ign: ignoreFirstResponse.
\* A new session is constructed, wired, and listen() runs iterate() and
\* fetch() up to the first request before subscribe registers it.
Subscribe(v, c, ign, objects, limit) ==
  IF has(pool, v)
  THEN /\ ret' = pool[v]
       /\ UNCHANGED <<poolVars, sessVars, now, polls, call, pollStart, waitMs,
                      sessEv, poolEv, poolTags, hasAtTerm, given, stoppedAt,
                      dataOf, rd>>
  ELSE /\ created < objects
       /\ LET s == created + 1 IN
          /\ created' = s
          /\ videoId' = [videoId EXCEPT ![s] = v]
          /\ channelId' = [channelId EXCEPT ![s] = c]
          /\ isLive' = [isLive EXCEPT ![s] = InitialLive(options)]
          /\ listener' = [listener EXCEPT ![s] = TRUE]
          /\ aborted' = [aborted EXCEPT ![s] = FALSE]
          /\ skipFirst' = [skipFirst EXCEPT ![s] = ign]
          /\ token' = [token EXCEPT ![s] = InitialToken]
          /\ StartFetch(s, InitialLive(options), InitialToken, limit)
          /\ pool' = [pool EXCEPT ![v] = s]
          /\ ret' = s
          /\ given' = [given EXCEPT ![s] = <<v, c>>]
       /\ UNCHANGED <<options, continuation, startMs, resToken, now, waitMs,
                      sessEv, poolEv, poolTags, hasAtTerm, stoppedAt, dataOf, rd>>

\* unsubscribe(videoId)
Unsubscribe(v) ==
  /\ IF has(pool, v)
     THEN /\ TotalEnds < MaxEnds
          /\ StopBody(pool[v])
     ELSE /\ NoEmit
          /\ UNCHANGED <<aborted, stoppedAt>>
  /\ UNCHANGED <<rd, token, resToken, dataOf,
                 options, created, videoId, channelId, isLive, listener, pc,
                 retryRemaining, requestUrl, continuation, skipFirst, startMs,
                 now, polls, call, pollStart, waitMs, ret, given>>

\* ------------------------------------------------------------------ clock
Tick(d) ==
  /\ now + d <= MaxTime
  /\ now' = now + d
  /\ UNCHANGED <<poolVars, sessVars, obsVars, rd>>

\* ---------------------------------------------------------- ProtoBufReader

\* isEnded(): this.c === this.buf.length
isEnded(r) == r.c = Len(r.buf)

\* remainingBytes(): this.buf.length - this.c
remainingBytes(r) == Len(r.buf) - r.c

\* one more operation on the reader, named op, that was at cursor rd.c
Op(op) == [rd EXCEPT !.op = op, !.from = rd.c, !.reads = @ + 1]

ReaderStep(next) ==
  /\ rd.op # "none"
  /\ rd.reads < MaxReads
  /\ rd' = next
  /\ UNCHANGED <<poolVars, sessVars, now, obsVars>>

\* new ProtoBufReader(buf)
NewReader(buf) ==
  /\ rd.op = "none"
  /\ rd' = [NoReader EXCEPT !.buf = buf, !.op = "new"]
  /\ UNCHANGED <<poolVars, sessVars, now, obsVars>>

\* eat(bytes)
Eat(bytes) ==
  ReaderStep(IF isEnded(rd)
             THEN [Op("eat") EXCEPT !.out = Null]
             ELSE [Op("eat") EXCEPT
                     !.out = [NoOut EXCEPT !.kind = "buffer",
                                           !.bytes = Slice(rd.buf, rd.c, rd.c + bytes)],
                     !.c = rd.c + bytes])

\* eatUInt32() (width 4) and eatUInt64() (width 8): the Buffer throws a
\* RangeError when fewer than width bytes are left at the cursor
EatFixed(op, width) ==
  ReaderStep(IF isEnded(rd)
             THEN [Op(op) EXCEPT !.out = Null]
             ELSE IF rd.c + width > Len(rd.buf)
             THEN [Op(op) EXCEPT !.out = [NoOut EXCEPT !.kind = "RangeError"]]
             ELSE [Op(op) EXCEPT
                     !.out = [NoOut EXCEPT
                                !.kind = "number",
                                !.val = LittleEndian(SubSeq(rd.buf, rd.c + 1, rd.c + width))],
                     !.c = rd.c + width])

EatUInt32 == EatFixed("eatUInt32", 4)
EatUInt64 == EatFixed("eatUInt64", 8)

\* eatVariant()
EatVariant ==
  ReaderStep(IF isEnded(rd)
             THEN [Op("eatVariant") EXCEPT !.out = Null]
             ELSE LET last == ScanVariant(rd.buf, rd.c)
                      rawBuf == Slice(rd.buf, rd.c, last + 1)
                  IN [Op("eatVariant") EXCEPT
                        !.out = [NoOut EXCEPT !.kind = "bigint",
                                              !.val = parseVariant(rawBuf)],
                        !.c = last + 1])

\* save()
Save == ReaderStep([Op("save") EXCEPT !.s = rd.c])

\* rewind()
Rewind == ReaderStep([Op("rewind") EXCEPT !.c = rd.s])

\* rewind(b), for a b that does not move the cursor before the buffer
RewindBy(b) ==
  /\ b <= rd.c
  /\ ReaderStep([Op("rewind") EXCEPT !.c = rd.c - b])

\* ProtoBufReader.splitHeader(n) applied to the varint just read
SplitHeader ==
  /\ rd.op = "eatVariant"
  /\ rd.out.kind = "bigint"
  /\ ReaderStep([Op("splitHeader") EXCEPT !.hdr = splitHeader(rd.out.val)])

\* ---------------------------------------------------------- specification

\* The pool and its sessions.  A stream has one channel; the remote answers
\* a request with a batch, with the end of the stream or with a fatal
\* status; the sessions are created in one mode and the clock is not observed.
Identities == {<<"v1", "c1">>, <<"v2", "c2">>}
PoolResponses == {"NotFound", "ended", "content"}
PoolModes == {"live"}

PoolNext(objects, limit) ==
  \/ \E id \in Identities : Subscribe(id[1], id[2], FALSE, objects, limit)
  \/ \E v \in Videos : Unsubscribe(v)
  \/ \E s \in Sessions : Stop(s)
  \/ \E s \in Sessions, r \in PoolResponses : PostSettle(s, r, 0)
  \/ \E s \in Sessions : PostAbort(s)
  \/ \E s \in Sessions : EmitActions(s)
  \/ \E s \in Sessions : EmitChats(s)
  \/ \E s \in Sessions : Resume(s, limit)
  \/ \E s \in Sessions : Finally(s)

Init == InitWith(PoolModes)
Next == PoolNext(PoolSessions, PoolPolls)
Spec == Init /\ [][Next]_vars

\* The same pool with one more session object, enough for a session that
\* was replaced in the registry to still be unwinding.
NextStale == PoolNext(MaxSessions, StalePolls)
SpecStale == Init /\ [][NextStale]_vars

\* One session from subscribe() until its loop has unwound, every response
\* of the remote, and the clock.
InitSession == InitWith(Modes)

NextSession ==
  \/ \E ign \in BOOLEAN : created = 0 /\ Subscribe("v1", "c1", ign, 1, MaxPolls)
  \/ Stop(1)
  \/ \E r \in Responses, t \in Timeouts : PostSettle(1, r, t)
  \/ PostAbort(1)
  \/ Backoff(1)
  \/ EmitActions(1)
  \/ EmitChats(1)
  \/ Resume(1, MaxPolls)
  \/ WaitDone(1, MaxPolls)
  \/ WaitAbort(1)
  \/ Finally(1)
  \/ \E d \in Durations : Tick(d)

SpecSession == InitSession /\ [][NextSession]_vars

\* One session with the clock left alone, and listen() called on its handle
\* at any moment.  An aborted signal rejects the
\* pending delay() at once and the promise continuations then run, so the
\* abort of a wait is not postponed for ever.
NextCancel ==
  \/ \E ign \in BOOLEAN : created = 0 /\ Subscribe("v1", "c1", ign, 1, MaxPolls)
  \/ Stop(1)
  \/ \E r \in Responses, t \in Timeouts : PostSettle(1, r, t)
  \/ PostAbort(1)
  \/ Backoff(1)
  \/ EmitActions(1)
  \/ EmitChats(1)
  \/ Resume(1, MaxPolls)
  \/ WaitDone(1, MaxPolls)
  \/ WaitAbort(1)
  \/ Finally(1)
  \/ \E ign \in BOOLEAN : Listen(1, ign, MaxPolls)

\* One session, with every request answered or failed in the end: the
\* remote responds, an aborted request rejects, the back-off timer fires.
SpecAnswered ==
  /\ InitSession /\ [][NextCancel]_vars
  /\ WF_vars(\E r \in Responses, t \in Timeouts : PostSettle(1, r, t))
  /\ WF_vars(PostAbort(1))
  /\ WF_vars(Backoff(1))

\* One ProtoBufReader over a buffer, and the reads made on it.
NextReader ==
  \/ \E buf \in Buffers : NewReader(buf)
  \/ \E bytes \in EatSizes : Eat(bytes)
  \/ EatUInt32
  \/ EatUInt64
  \/ EatVariant
  \/ Save
  \/ Rewind
  \/ \E b \in RewindSizes : RewindBy(b)
  \/ SplitHeader

SpecReader == Init /\ [][NextReader]_vars

SpecCancel == InitSession /\ [][NextCancel]_vars /\ WF_vars(WaitAbort(1))

\* The same, with the event loop running every continuation that is ready:
\* the handlers of an emit() return, a resolved await resumes, a settled
\* promise runs its then / catch / finally.
SpecLoop ==
  /\ InitSession /\ [][NextCancel]_vars
  /\ WF_vars(EmitActions(1)) /\ WF_vars(EmitChats(1))
  /\ WF_vars(Resume(1, MaxPolls)) /\ WF_vars(Finally(1))
  /\ WF_vars(WaitAbort(1)) /\ WF_vars(PostAbort(1))


\* ================================================================= claims

Made == 1..created

\* the polling loop was started, is not cancelled and has not ended or errored
Running(s) == listener[s] /\ ~aborted[s] /\ pc[s] \notin {"finally", "done"}

\* the session has emitted 'end' or 'error'
Terminated(s) == sessEv[s]["end"] + sessEv[s]["error"] > 0

\* C1: at every moment at most one session per stream id is running, whatever
\* the interleaving of subscribe, unsubscribe, stop() on a handle, natural end
\* and error.
C1_OneRunningPerStream ==
  \A a \in Made, b \in Made :
    (a # b /\ videoId[a] = videoId[b]) => ~(Running(a) /\ Running(b))

\* C2: subscribe(id) while a session for id is registered returns that very
\* session, constructs no object, starts no polling loop and leaves the
\* registry and every session as they were.
C2_SubscribeIdempotent ==
  [][\A id \in Identities :
       (pool[id[1]] # NoSession
          /\ Subscribe(id[1], id[2], FALSE, PoolSessions, PoolPolls))
       => /\ ret' = pool[id[1]]
          /\ created' = created
          /\ pool' = pool
          /\ polls' = polls
          /\ UNCHANGED <<sessVars, sessEv, poolEv>>]_vars

\* a later subscribe() of a registered stream handed back the older session
C2_Witness ==
  /\ created = 2
  /\ ret = 1
  /\ pool[videoId[1]] = 1
  /\ listener[1]
  /\ polls[1] = 1

\* C3: when the pool's 'end' or 'error' listeners run for a stream, has(id) is
\* already false, and no later subscribe(id) returns a session that has
\* emitted a terminal event: with no entry registered it returns a new object.
C3_RemovedBeforeTerminalEvent ==
  /\ [](hasAtTerm \subseteq {FALSE})
  /\ [][\A id \in Identities :
          Subscribe(id[1], id[2], FALSE, PoolSessions, PoolPolls)
          => /\ \A s \in Made : Terminated(s) => ret' # s
             /\ pool[id[1]] = NoSession => ret' = created + 1]_vars

\* a session ended or failed, the pool's listeners saw no entry, and a later
\* subscribe of the same stream returned another session
C3_Witness ==
  /\ hasAtTerm = {FALSE}
  /\ \E s \in Made :
       /\ Terminated(s)
       /\ ret \in Made /\ ret > s
       /\ videoId[ret] = videoId[s]
       /\ pool[videoId[s]] = ret

\* C4: every batch, end and error event of a session is re-emitted by the
\* pool exactly once, with the videoId and channelId given to the subscribe
\* call that created the session.
C4_EveryEventRelayedWithIdentity ==
  \A s \in Made :
    /\ poolEv[s] = sessEv[s]
    /\ poolTags[s] \subseteq {given[s]}

\* one session relayed a batch and its end, another an error
C4_Witness ==
  \E a \in Made, b \in Made :
    /\ sessEv[a]["data"] > 0 /\ sessEv[a]["chats"] > 0 /\ sessEv[a]["end"] > 0
    /\ sessEv[b]["error"] > 0
    /\ poolTags[a] = {given[a]} /\ poolTags[b] = {given[b]}

\* what belongs to session b and its stream is the same before and after
SameFor(b) ==
  /\ pool'[videoId[b]] = pool[videoId[b]]
  /\ aborted'[b] = aborted[b]
  /\ listener'[b] = listener[b]
  /\ pc'[b] = pc[b]
  /\ polls'[b] = polls[b]
  /\ sessEv'[b] = sessEv[b]
  /\ poolEv'[b] = poolEv[b]

\* C5: unsubscribe(A), or stop() on A's handle, changes nothing of any other
\* stream B: its registry entry, its cancellation signal, its polling loop
\* and its events.  (stop and unsubscribe move no session's polling loop, so
\* only the steps that leave pc alone need to be looked at.)
C5_CancellationIsPerSession ==
  [][pc' = pc =>
       /\ \A a \in Made :
            Stop(a) => \A b \in Made : videoId[b] # videoId[a] => SameFor(b)
       /\ \A v \in Videos :
            Unsubscribe(v) => \A b \in Made : videoId[b] # v => SameFor(b)]_vars

\* A was cancelled and removed while B, another stream, is registered and polling
C5_Witness ==
  \E a \in Made, b \in Made :
    /\ videoId[a] # videoId[b]
    /\ aborted[a] /\ sessEv[a]["end"] > 0 /\ pool[videoId[a]] = NoSession
    /\ ~aborted[b] /\ listener[b] /\ pool[videoId[b]] = b /\ sessEv[b]["end"] = 0


\* ------------------------------------------------------------ fetch claims

Max0(x) == IF x > 0 THEN x ELSE 0

\* the requests of the current fetch() call that were answered or failed
Settled(s) == call[s].requests - (IF pc[s] = "post" THEN 1 ELSE 0)

\* C6: a fetch call whose every request fails transiently makes exactly
\* RetryBudget + 1 requests and then raises the error of the last one; it
\* never makes more and never returns a batch.
C6_RetryBound ==
  \A s \in Made :
    LET c == call[s] IN
    /\ (c.transient = c.requests /\ pc[s] # "backoff")
         => /\ c.requests = RetryBudget + 1
            /\ c.out = ErrorOf(c.last)
            /\ c.out \in {"Error", "FetchError"}
    /\ c.transient = Settled(s) => c.requests <= RetryBudget + 1
    /\ c.out = "batch" => c.transient < c.requests

\* four requests failed transiently and the call raised the last error
C6_Witness ==
  \E s \in Made :
    /\ call[s].requests = RetryBudget + 1
    /\ call[s].transient = RetryBudget + 1
    /\ call[s].last = "Unavailable"
    /\ call[s].out = "Error"
    /\ sessEv[s]["error"] = 1

\* C7: a response with status permission-denied, not-found or
\* invalid-argument makes the call raise the matching error at once: no
\* back-off, no further request, whatever budget was left.
C7_FatalNeverRetried ==
  [][\A s \in Made, r \in FatalStatuses :
       PostSettle(s, r, 0)
       => /\ call'[s].out = ErrorOf(r)
          /\ call'[s].requests = call[s].requests
          /\ pc'[s] = "finally"
          /\ sessEv'[s]["error"] = sessEv[s]["error"] + 1]_vars

\* a fatal status arrived on the second request, with budget left, and ended the call
C7_Witness ==
  \E s \in Made :
    /\ call[s].last = "PermissionDenied"
    /\ call[s].requests = 2
    /\ call[s].transient = 1
    /\ call[s].out = "NoPermissionError"
    /\ retryRemaining[s] = 0

\* C8: a 'chat disabled' response falls back to the replay endpoint exactly
\* when the mode is unknown: mode becomes replay, the request is rebuilt for
\* the replay endpoint and reissued with the budget untouched; in a committed
\* mode the call raises Disabled with no fallback and no further request.
C8_FallbackOnlyWhenUnknown ==
  [][\A s \in Made :
       PostSettle(s, "disabled", 0)
       => IF isLive[s] = "unknown"
          THEN /\ isLive'[s] = "replay"
               /\ requestUrl'[s] = "EP_GLCR"
               /\ retryRemaining'[s] = retryRemaining[s]
               /\ pc'[s] = "post"
               /\ call'[s].requests = call[s].requests + 1
               /\ call'[s].out = "none"
          ELSE /\ isLive'[s] = isLive[s]
               /\ requestUrl'[s] = requestUrl[s]
               /\ call'[s].out = "DisabledChatError"
               /\ call'[s].requests = call[s].requests
               /\ pc'[s] = "finally"]_vars

\* a session of unknown mode fell back once, and the next 'chat disabled'
\* response, now in replay mode, raised Disabled
C8_Witness ==
  \E s \in Made :
    /\ options = "unknown"
    /\ isLive[s] = "replay"
    /\ call[s].fallbacks = 1
    /\ call[s].requests = 2
    /\ call[s].out = "DisabledChatError"
    /\ retryRemaining[s] = RetryBudget

\* C9: in live mode the wait before the next poll is
\* max(0, continuation.timeoutMs - d), d being the time since the poll was
\* issued, the duration of the fetch included.
C9_DriftIncludesFetch ==
  [][\A s \in Made :
       (Resume(s, MaxPolls) /\ continuation[s] # NoCont /\ Paced(isLive[s]))
       => waitMs'[s] = Max0(continuation[s] - (now - pollStart[s]))]_vars

\* C10: stop() called while the session is suspended in the
\* drift-compensated wait interrupts the wait: the session reaches stopped
\* (listener cleared), and from the stop on no error event is emitted and no
\* further poll is made.
StoppedInWait(s) == pc[s] = "wait" /\ aborted[s] /\ stoppedAt[s] = "wait"

C10_StopInWaitReachesStopped ==
  /\ \A s \in {1} : StoppedInWait(s) ~> (~listener[s] /\ pc[s] = "done")
  /\ [][\A s \in Made :
          StoppedInWait(s)
          => /\ pc'[s] \in {"wait", "done"}
             /\ polls'[s] = polls[s]
             /\ call'[s] = call[s]
             /\ sessEv'[s]["error"] = sessEv[s]["error"]
             /\ sessEv'[s]["data"] = sessEv[s]["data"]]_vars

\* the session was stopped in its wait and has unwound without an error event
C10_Witness ==
  \E s \in Made :
    /\ stoppedAt[s] = "wait"
    /\ pc[s] = "done"
    /\ ~listener[s]
    /\ call[s].out = "batch"
    /\ sessEv[s]["error"] = 0
    /\ sessEv[s]["data"] = polls[s]


\* ---------------------------------------------------------- session claims

\* the session is stopped: its listener is null (the loop has unwound)
Stopped(s) == ~listener[s] /\ pc[s] = "done"

\* C11: once a session has reached stopped (after a natural end, an error or
\* a cancellation), listen() on the same object starts no polling loop and
\* issues no poll.
C11_StoppedNeverRestarts ==
  [][\A s \in Made :
       Stopped(s) => /\ polls'[s] = polls[s]
                     /\ ~listener'[s]
                     /\ pc'[s] = "done"]_vars

\* the final (continuation-less) batch was returned and the loop is unwinding
Ending(s) ==
  /\ call[s].out = "batch"
  /\ continuation[s] = NoCont
  /\ pc[s] \in {"emitActions", "emitChats", "resume", "finally"}

\* what follows the final batch, whichever way it was delivered: no error,
\* no poll, 'end' when the loop breaks, then the listener is cleared
EndsAfterFinalBatch(s) ==
  /\ Ending(s) => /\ polls'[s] = polls[s]
                  /\ sessEv'[s]["error"] = sessEv[s]["error"]
                  /\ call'[s] = call[s]
  /\ (Ending(s) /\ pc[s] = "resume" /\ pc'[s] # pc[s])
       => /\ sessEv'[s]["end"] = sessEv[s]["end"] + 1
          /\ pc'[s] = "finally"
  /\ (Ending(s) /\ pc[s] = "finally" /\ pc'[s] # pc[s]) => Stopped(s)'

\* C12 as stated: a poll that returns a batch with no continuation makes the
\* session emit that batch, then 'end', no 'error' and no further poll; the
\* batch event precedes the end event.
C12_FinalBatchAlwaysEmitted ==
  [][\A s \in Made :
       /\ PostSettle(s, "ended", 0)
            => /\ sessEv'[s]["data"] = sessEv[s]["data"] + 1
               /\ pc'[s] = "emitActions"
       /\ EndsAfterFinalBatch(s)]_vars

\* C12, amended: the same, except that the first response of a listen() call
\* made with ignoreFirstResponse is not emitted; the session then emits only
\* 'end'.  The session reaches stopped in both cases.
C12_NaturalTermination ==
  /\ [][\A s \in Made :
          /\ PostSettle(s, "ended", 0)
               => IF skipFirst[s]
                  THEN /\ sessEv'[s] = sessEv[s]
                       /\ pc'[s] = "resume"
                  ELSE /\ sessEv'[s]["data"] = sessEv[s]["data"] + 1
                       /\ sessEv'[s]["end"] = sessEv[s]["end"]
                       /\ dataOf'[s] = Append(dataOf[s], polls[s])
                       /\ pc'[s] = "emitActions"
          /\ EndsAfterFinalBatch(s)]_vars
  /\ \A s \in {1} : Ending(s) ~> Stopped(s)

\* the second poll returned the final batch; it was emitted, then 'end', and
\* the session stopped without an error
C12_Witness ==
  \E s \in Made :
    /\ Stopped(s)
    /\ call[s].out = "batch" /\ continuation[s] = NoCont
    /\ polls[s] = 2
    /\ dataOf[s] = <<1, 2>>
    /\ sessEv[s]["end"] = 1
    /\ sessEv[s]["error"] = 0

\* the last fetch() call raised an error other than AbortError
Failed(s) == call[s].out \notin {"none", "batch", "AbortError"}

\* C13: when a poll raises a non-Aborted error the session emits exactly one
\* 'error' for it and no 'end', makes no further poll and becomes stopped.
C13_ErrorEndsSession ==
  /\ [][\A s \in Made :
          /\ (pc[s] = "post" /\ Failed(s)')
               => /\ sessEv'[s]["error"] = sessEv[s]["error"] + 1
                  /\ sessEv'[s]["end"] = sessEv[s]["end"]
                  /\ poolEv'[s]["error"] = poolEv[s]["error"] + 1
                  /\ call'[s].out = ErrorOf(call'[s].last)
                  /\ polls'[s] = polls[s]
                  /\ pc'[s] = "finally"
          /\ (pc[s] = "finally" /\ Failed(s))
               => /\ sessEv'[s]["error"] = sessEv[s]["error"]
                  /\ polls'[s] = polls[s]
                  /\ call'[s] = call[s]
                  /\ pc'[s] # pc[s] => /\ Stopped(s)'
                                       /\ sessEv'[s]["end"] = sessEv[s]["end"]]_vars
  /\ \A s \in {1} : (pc[s] = "finally" /\ Failed(s)) ~> Stopped(s)

\* the first poll exhausted its retries; one 'error', no 'end', stopped
C13_Witness ==
  \E s \in Made :
    /\ Stopped(s)
    /\ call[s].out = "FetchError"
    /\ call[s].requests = RetryBudget + 1
    /\ polls[s] = 1
    /\ sessEv[s]["error"] = 1
    /\ sessEv[s]["end"] = 0

\* C14: while cancellation is requested, whatever the loop was doing when
\* stop() was called (request in flight, back-off, drift wait, batch being
\* handled), no 'error' is emitted by the session or by the pool, and the
\* AbortError the loop ends with is dropped.
C14_AbortedNeverSurfaces ==
  [][\A s \in Made :
       /\ aborted[s] => /\ sessEv'[s]["error"] = sessEv[s]["error"]
                        /\ poolEv'[s]["error"] = poolEv[s]["error"]
       /\ (call'[s].out = "AbortError" /\ call[s].out # "AbortError")
            => /\ sessEv'[s]["error"] = sessEv[s]["error"]
               /\ Stopped(s)']_vars

\* stop() came during the retry back-off; the next request was rejected as
\* aborted and the session stopped with no error event
C14_Witness ==
  \E s \in Made :
    /\ stoppedAt[s] = "backoff"
    /\ call[s].out = "AbortError"
    /\ Stopped(s)
    /\ sessEv[s]["error"] = 0
    /\ poolEv[s]["error"] = 0
    /\ sessEv[s]["end"] = 1


\* a poll of s is issued in this step
Polls(s) == polls'[s] = polls[s] + 1

\* no request of s is outstanding and no retry of one is pending
NoneInFlight(s) == pc[s] \notin {"post", "backoff"}

\* C17 as stated: the k-th emitted batch is the result of the k-th poll, poll
\* k+1 is issued only after batch k was emitted and with the continuation
\* token poll k returned, and never while another poll is in flight.
C17_BatchKIsPollK ==
  /\ [](\A s \in Made : \A k \in 1..Len(dataOf[s]) : dataOf[s][k] = k)
  /\ [][\A s \in Made :
          (Polls(s) /\ polls[s] > 0)
          => /\ NoneInFlight(s)
             /\ Len(dataOf[s]) = polls[s]
             /\ call'[s].token = polls[s]]_vars

\* C17, amended: an emitted batch is the result of the poll just answered,
\* and batches are emitted in fetch order, each at most once.  After the
\* first poll of a listen() call, a poll is issued only when the previous
\* poll returned a batch, with exactly the continuation token of that batch
\* and after that batch was emitted, or skipped as the first response of a
\* listen() call made with ignoreFirstResponse.  No poll is issued while
\* another is in flight.
C17_BatchesFollowPolls ==
  /\ [](\A s \in Made :
          /\ \A i, j \in 1..Len(dataOf[s]) : i < j => dataOf[s][i] < dataOf[s][j]
          /\ pc[s] = "resume"
               => \/ skipFirst[s]
                  \/ /\ dataOf[s] # <<>>
                     /\ dataOf[s][Len(dataOf[s])] = polls[s])
  /\ [][\A s \in Made :
          /\ sessEv'[s]["data"] # sessEv[s]["data"]
               => /\ pc[s] = "post"
                  /\ call'[s].out = "batch"
                  /\ sessEv'[s]["data"] = sessEv[s]["data"] + 1
                  /\ dataOf'[s] = Append(dataOf[s], polls[s])
          /\ (pc'[s] = "wait" /\ pc[s] # "wait") => pc[s] = "resume"
          /\ Polls(s)
               => /\ NoneInFlight(s)
                  /\ \/ /\ ~listener[s]
                        /\ call'[s].token = InitialToken
                     \/ /\ listener[s]
                        /\ pc[s] \in {"resume", "wait"}
                        /\ call[s].out = "batch"
                        /\ call'[s].token = polls[s]
                        /\ call'[s].token = resToken[s]]_vars

\* listen() was called with ignoreFirstResponse: the first response was
\* skipped, the second poll used its token and its batch was the first emitted
C17_Witness ==
  \E s \in Made :
    /\ polls[s] = 2
    /\ dataOf[s] = <<2>>
    /\ call[s].token = 1
    /\ call[s].out = "batch"
    /\ sessEv[s]["data"] = 1

\* C18: once the mode of a session is live or replay, polls, waits, stop()
\* and listen() leave it as it is; in particular it is never unknown again.
C18_ModeMonotone ==
  [][\A s \in Made :
       isLive[s] # "unknown" => /\ isLive'[s] = isLive[s]
                                /\ isLive'[s] # "unknown"]_vars

\* a session of unknown mode was resolved to replay by the fallback, was
\* stopped, restarted by listen() and polled again, still in replay mode
C18_Witness ==
  \E s \in Made :
    /\ options = "unknown"
    /\ isLive[s] = "replay"
    /\ requestUrl[s] = "EP_GLCR"
    /\ polls[s] = 2
    /\ sessEv[s]["end"] > 0
    /\ listener[s] /\ ~aborted[s]

\* C19: once stop() has been called, the loop starts no new poll: fetch()
\* is not invoked again for the cancelled loop.
C19_NoPollAfterStop ==
  [][\A s \in Made :
       (aborted[s] /\ aborted'[s]) => polls'[s] = polls[s]]_vars

\* C20: a request in flight when stop() is called makes fetch() raise
\* AbortError at once: no retry, no back-off, the budget untouched, no batch
\* and no error event.
C20_AbortInFlightNotRetried ==
  [][\A s \in Made :
       PostAbort(s)
       => /\ call'[s].out = "AbortError"
          /\ call'[s].requests = call[s].requests
          /\ retryRemaining'[s] = retryRemaining[s]
          /\ polls'[s] = polls[s]
          /\ sessEv'[s] = sessEv[s]
          /\ Stopped(s)']_vars

\* stop() came while the second request of a call was in flight, with two
\* retries left: the call raised AbortError and nothing was retried
C20_Witness ==
  \E s \in Made :
    /\ stoppedAt[s] = "post"
    /\ call[s].out = "AbortError"
    /\ call[s].requests = 2
    /\ call[s].transient = 1
    /\ retryRemaining[s] = RetryBudget - 1
    /\ Stopped(s)


\* ----------------------------------------------------------- reader claims

\* the bytes e stand in buf at offset at
StartsWith(buf, at, e) ==
  /\ at >= 0
  /\ at + Len(e) <= Len(buf)
  /\ SubSeq(buf, at + 1, at + Len(e)) = e

\* C15: eatVariant on the standard little-endian base-128 encoding of v
\* returns exactly v and moves the cursor by the length of that encoding,
\* for the 7-bit boundary values and for values of up to 64 bits.
C15_VarintExact ==
  (rd.op = "eatVariant" /\ rd.out.kind = "bigint")
  => /\ \A n \in SmallValues :
          StartsWith(rd.buf, rd.from, EncodeNat(n))
          => /\ rd.out.val \subseteq 0..30
             /\ Number(rd.out.val) = n
             /\ rd.c = rd.from + Len(EncodeNat(n))
     /\ \A v \in WideValues :
          StartsWith(rd.buf, rd.from, EncodeBits(v))
          => /\ rd.out.val = v
             /\ rd.c = rd.from + Len(EncodeBits(v))

\* 2^64 - 1, ten bytes, was read after a two-byte header
C15_Witness ==
  /\ rd.op = "eatVariant"
  /\ rd.buf = EncodeNat(16383) \o EncodeBits(0..63)
  /\ rd.from = 2
  /\ rd.out.val = 0..63
  /\ rd.c = 12
  /\ isEnded(rd)

\* C16: splitHeader(h) is [h >> 3, h & 7], so that (field << 3) | wire = h;
\* the bytes 08 01 read as a header and a varint give field 1, wire type 0
\* and value 1, and leave the reader at the end of the buffer.
C16_HeaderSplit ==
  /\ rd.op = "splitHeader"
       => LET h == rd.out.val
              d == rd.hdr
          IN /\ d.of = h
             /\ d.wire \in 0..7
             /\ ShiftLeft(d.field, 3) \cup BitsOf(d.wire) = h
             /\ h \subseteq 0..30 => /\ Number(d.field) = Number(h) \div 8
                                     /\ d.wire = Number(h) % 8
  /\ (rd.buf = <<8, 1>> /\ rd.op = "eatVariant" /\ rd.from = 1 /\ rd.hdr.of = BitsOf(8))
       => /\ rd.hdr.field = BitsOf(1)
          /\ rd.hdr.wire = 0
          /\ rd.out.kind = "bigint"
          /\ rd.out.val = BitsOf(1)
          /\ isEnded(rd)
          /\ remainingBytes(rd) = 0

\* 08 01 was read: the header split into field 1 and wire type 0, then value 1
C16_Witness ==
  /\ rd.buf = <<8, 1>>
  /\ rd.op = "eatVariant"
  /\ rd.from = 1
  /\ rd.hdr = [field |-> {0}, wire |-> 0, of |-> {3}]
  /\ rd.out.val = {0}
  /\ rd.c = 2


\* ------------------------------------------------- pool and event claims

\* session s emits 'end' or 'error' in this step
EmitsTerminal(s) ==
  sessEv'[s]["end"] + sessEv'[s]["error"] > sessEv[s]["end"] + sessEv[s]["error"]

\* C21: unsubscribe(id) only asks the session to stop: the registry entry of
\* id goes away only in a step in which the registered session itself emits
\* 'end' or 'error', and unsubscribe of an id that is not registered changes
\* and emits nothing.
C21_UnsubscribeIsCooperative ==
  [][/\ \A v \in Videos :
          (pool[v] = NoSession /\ Unsubscribe(v))
          => UNCHANGED <<pool, aborted, listener, pc, sessEv, poolEv>>
     /\ \A v \in Videos :
          (pool[v] # NoSession /\ pool'[v] # pool[v])
          => /\ pool'[v] = NoSession
             /\ EmitsTerminal(pool[v])]_vars

\* C24: a session emits at most one terminal event per run: never two 'end'
\* and never both 'end' and 'error'.  (Under Spec a session object runs once.)
C24_OneTerminalEventPerRun ==
  \A s \in Made : sessEv[s]["end"] + sessEv[s]["error"] <= 1

\* C25: after a session has emitted 'end' it emits no 'data', 'actions' or
\* 'chats', and the pool re-emits none for it after re-emitting its 'end'.
C25_NoBatchAfterEnd ==
  [][\A s \in Made, ev \in {"data", "actions", "chats"} :
       /\ sessEv[s]["end"] > 0 => sessEv'[s][ev] = sessEv[s][ev]
       /\ poolEv[s]["end"] > 0 => poolEv'[s][ev] = poolEv[s][ev]]_vars

\* C26: 'end' or 'error' from a session that is not the one registered for
\* its videoId leaves the registry unchanged.
C26_StaleTerminalKeepsRegistry ==
  [][\A s \in Made :
       (EmitsTerminal(s) /\ pool[videoId[s]] \notin {s, NoSession})
       => pool' = pool]_vars

\* C27: every session held in the registry is registered under its own
\* videoId and has an active polling loop: its listener is non-null and it
\* has not ended, failed or unwound.
C27_RegisteredSessionsAreLive ==
  \A v \in Videos :
    pool[v] # NoSession
    => LET s == pool[v] IN
       /\ s \in Made
       /\ videoId[s] = v
       /\ listener[s]
       /\ ~aborted[s]
       /\ ~Terminated(s)
       /\ pc[s] \notin {"none", "finally", "done"}

\* the first session of a stream has ended and unwound; a second one is
\* registered for the same stream and has delivered a batch
C27_Witness ==
  \E v \in Videos :
    /\ pool[v] = 2
    /\ videoId[1] = v
    /\ Stopped(1) /\ Terminated(1)
    /\ listener[2] /\ sessEv[2]["data"] > 0


\* ------------------------------------------------- reader claims, errors

ReadOps == {"eat", "eatUInt32", "eatUInt64", "eatVariant"}

\* C22: once the reads have consumed every byte of the buffer, a read that
\* asked for more than was left included, every further read returns null,
\* raises no error and leaves the cursor where it is.
C22_ReadPastEndIsNoOp ==
  [][(rd.op # "none" /\ rd.c >= Len(rd.buf)
        /\ rd'.reads = rd.reads + 1 /\ rd'.op \in ReadOps)
     => /\ rd'.out = Null
        /\ rd'.c = rd.c]_vars

\* every byte from offset at to the end of buf has its continuation bit set
TruncatedAt(buf, at) ==
  /\ at >= 0 /\ at < Len(buf)
  /\ \A i \in at .. Len(buf) - 1 : HasMore(buf, i)

\* C23: reading a truncated varint, or eat(n) with n greater than
\* remainingBytes(), gives an error outcome and no value.
C23_MalformedInputIsAnError ==
  /\ (rd.op = "eatVariant" /\ TruncatedAt(rd.buf, rd.from))
       => rd.out.kind \notin {"bigint", "number", "buffer", "null"}
  /\ (rd.op = "eat" /\ rd.from >= 0 /\ rd.from < Len(rd.buf) /\ rd.c > Len(rd.buf))
       => rd.out.kind \notin {"bigint", "number", "buffer", "null"}

\* ------------------------------------------------------ fetch, termination

\* a request of the current fetch() call is outstanding or will be retried
InFlight(s) == pc[s] \in {"post", "backoff"}

\* C28: a fetch() call makes at most 5 requests (1 + RetryBudget retries +
\* at most one fallback request) and then returns one batch or raises one
\* error, once; the fallback happens at most once per call and, the mode
\* being resolved by it for good, at most once per session.  With every
\* request answered or failed the call ends.
C28_FetchTerminates ==
  /\ [][\A s \in Made :
          /\ call'[s].requests <= RetryBudget + 2
          /\ call'[s].fallbacks <= 1
          /\ call'[s].out # "none" => ~InFlight(s)'
          /\ call[s].out # "none" => (call'[s] = call[s] \/ Polls(s))
          /\ call'[s].fallbacks > call[s].fallbacks
               => /\ isLive[s] = "unknown"
                  /\ isLive'[s] = "replay"
                  /\ retryRemaining'[s] = retryRemaining[s]
          /\ isLive[s] # "unknown" => isLive'[s] # "unknown"]_vars
  /\ \A s \in {1} : InFlight(s) ~> ~InFlight(s)

\* three retries, the fallback and a fifth request that returned the batch
C28_Witness ==
  \E s \in Made :
    /\ call[s].requests = RetryBudget + 2
    /\ call[s].transient = RetryBudget
    /\ call[s].fallbacks = 1
    /\ call[s].out = "batch"
    /\ retryRemaining[s] = 0
    /\ isLive[s] = "replay"

====
